---- MODULE Spec2Model ----
(***************************************************************************)
(* Health-check server of the Cloud SQL Auth proxy.                        *)
(*                                                                         *)
(* healthcheck.go holds two variants of the package: the Server variant    *)
(* (NewServer / Close / NotifyStarted / isReady / isLive) and the HC       *)
(* variant (NewHealthCheck / CloseHealthCheck / NotifyReadyForConnections  *)
(* / readinessTest / livenessTest).  A process is built from one of them;  *)
(* the variable `variant` says which.                                      *)
(*                                                                         *)
(* The model covers the owning process (constructor, notify and close      *)
(* calls), the background serve goroutine, the probe requests of the       *)
(* orchestrator with their handlers, and the collaborator's connection     *)
(* counter.                                                                *)
(***************************************************************************)
EXTENDS Integers, FiniteSets, Sequences, TLC

\* ------------------------------------------------------------------ bounds
NumInst == 2
NumReq == 2
NumNotify == 2
NumClose == 2
MaxCur == 1
MaxLimit == 1
\* calls the owning process and the orchestrator make in one run
MaxOps == 4
\* the range of the counters under which the readiness predicate is tabulated
MaxCount == 11

Insts == 1..NumInst
Reqs == 1..NumReq
Notifs == 1..NumNotify
Closes == 1..NumClose

\* a nil handle (a nil *HC receiver)
Nil == 0

\* nobody holds the mutex
Free == <<>>

VARIABLES
  variant,      \* "Server" or "HC": the variant of the package the process runs
  portTaken,    \* the port is held by a process other than this one
  crashed,      \* "none", or the panic that ended the process
  cur,          \* proxy.Client.ConnectionsCounter
  max,          \* proxy.Client.MaxConnections
  handle,       \* per instance: "none" (not constructed), "ok" (handle returned), "err" (error returned)
  ln,           \* per instance, its listener: "none", "bound", "accepting", "closed", "failed"
  inShutdown,   \* per instance: http.Server.Shutdown has been called on srv
  servePc,      \* per instance, the serve goroutine: "none", "spawned", "listen", "serve", "loop", "returned"
  serveLog,     \* per instance: the serve goroutine logged an error
  serveErr,     \* per instance: what Serve / ListenAndServe returned: "none" (not yet), "ErrServerClosed", "other"
  started,      \* per instance: the started field
  startedL,     \* per instance: holder of Server.startedL
  startupL,     \* holder of the package-level startupL (HC)
  readinessL,   \* holder of the package-level readinessL (HC)
  livenessL,    \* holder of the package-level livenessL (HC)
  hcReady,      \* per instance: HC.ready
  hcLive,       \* per instance: HC.live
  muxReg,       \* instance whose handlers are registered on http.DefaultServeMux (HC), or Nil
  rPc,          \* per request: where it is
  rTgt,         \* per request: the server it is addressed to
  rPath,        \* per request: "/readiness" or "/liveness"
  rStarted,     \* per request: the handler's local copy of started
  rTest,        \* per request: what its own isReady / readinessTest / isLive / livenessTest call returned
  rStatus,      \* per request: the status written (0: none yet)
  rAfterNotify, \* per request: some notify call on its server had returned when its handler began
  rAfterClose,  \* per request: some close call on its server had returned nil when it was sent
  rAfterTrue,   \* per request: some readiness query of its server had completed with started read true when its handler began
  nPc,          \* per notify call: "idle", "lock", "write", "unlock", "returned"
  nTgt,         \* per notify call: the receiver
  cPc,          \* per close call: "idle", "shutdown", "poll", "select", "returned"
  cTgt,         \* per close call: the receiver
  cErr,         \* per close call: "none", "nil" (returned nil / nothing), "deadline" (returned ctx.Err())
  cDeadline,    \* per close call: the caller's deadline has passed
  cRepeat,      \* per close call: a close call on its server had already returned nil when it was made
  notifyCalled, \* per instance: some notify call on it has begun
  notifyReturned, \* per instance: some notify call on it has returned
  closedOk      \* per instance: some close call on it has returned without error

procVars == <<variant, portTaken, crashed>>
connVars == <<cur, max>>
srvVars == <<handle, ln, inShutdown, servePc, serveLog, serveErr, muxReg>>
flagVars == <<started, hcReady, hcLive>>
lockVars == <<startedL, startupL, readinessL, livenessL>>
reqVars == <<rPc, rTgt, rPath, rStarted, rTest, rStatus, rAfterNotify, rAfterClose, rAfterTrue>>
notifyVars == <<nPc, nTgt, notifyCalled, notifyReturned>>
closeVars == <<cPc, cTgt, cErr, cDeadline, cRepeat, closedOk>>

vars == <<procVars, connVars, srvVars, flagVars, lockVars, reqVars, notifyVars, closeVars>>

\* ---------------------------------------------------------------- helpers
livenessPath == "/liveness"
readinessPath == "/readiness"

Running == crashed = "none"

\* constructor, notify and close calls made and requests sent so far
OpsStarted ==
  Cardinality({i \in Insts : handle[i] # "none"}) + Cardinality({r \in Reqs : rPc[r] # "new"})
  + Cardinality({n \in Notifs : nPc[n] # "idle"}) + Cardinality({c \in Closes : cPc[c] # "idle"})

\* another call may be made
MayCall == Running /\ OpsStarted < MaxOps

\* the port is held, by another process or by a listener of this one
PortBusy == portTaken \/ \E j \in Insts : ln[j] \in {"bound", "accepting"}

\* requests whose handler is running on instance i (connections that are not idle)
InFlight(i) == {r \in Reqs : rTgt[r] = i /\ rPc[r] \notin {"new", "queued", "refused", "done"}}

\* closing a listener resets the connections waiting in its backlog
ResetQueued(i) == [r \in Reqs |-> IF rTgt[r] = i /\ rPc[r] = "queued" THEN "refused" ELSE rPc[r]]

\* the lifecycle of section 4.2: unstarted -> serving -> closed
Life(i) ==
  IF handle[i] # "ok" THEN "unstarted"
  ELSE IF inShutdown[i] THEN "closed"
  ELSE "serving"

\* ------------------------------------------------------------------- init
InitCommon ==
  /\ variant \in {"Server", "HC"}
  /\ portTaken \in BOOLEAN
  /\ crashed = "none"
  /\ handle = [i \in Insts |-> "none"]
  /\ ln = [i \in Insts |-> "none"]
  /\ inShutdown = [i \in Insts |-> FALSE]
  /\ servePc = [i \in Insts |-> "none"]
  /\ serveLog = [i \in Insts |-> FALSE]
  /\ serveErr = [i \in Insts |-> "none"]
  /\ started = [i \in Insts |-> FALSE]
  /\ startedL = [i \in Insts |-> Free]
  /\ startupL = Free
  /\ readinessL = Free
  /\ livenessL = Free
  /\ hcReady = [i \in Insts |-> FALSE]
  /\ hcLive = [i \in Insts |-> FALSE]
  /\ muxReg = Nil
  /\ rPc = [r \in Reqs |-> "new"]
  /\ rTgt = [r \in Reqs |-> Nil]
  /\ rPath = [r \in Reqs |-> readinessPath]
  /\ rStarted = [r \in Reqs |-> FALSE]
  /\ rTest = [r \in Reqs |-> FALSE]
  /\ rStatus = [r \in Reqs |-> 0]
  /\ rAfterNotify = [r \in Reqs |-> FALSE]
  /\ rAfterClose = [r \in Reqs |-> FALSE]
  /\ rAfterTrue = [r \in Reqs |-> FALSE]
  /\ nPc = [n \in Notifs |-> "idle"]
  /\ nTgt = [n \in Notifs |-> Nil]
  /\ cPc = [c \in Closes |-> "idle"]
  /\ cTgt = [c \in Closes |-> Nil]
  /\ cErr = [c \in Closes |-> "none"]
  /\ cDeadline = [c \in Closes |-> FALSE]
  /\ cRepeat = [c \in Closes |-> FALSE]
  /\ notifyCalled = [i \in Insts |-> FALSE]
  /\ notifyReturned = [i \in Insts |-> FALSE]
  /\ closedOk = [i \in Insts |-> FALSE]

Init ==
  /\ InitCommon
  /\ cur \in 0..MaxCur
  /\ max \in 0..MaxLimit

\* ------------------------------------------------------------ constructors
\* instances are constructed in order
NextInst(i) == MayCall /\ handle[i] = "none" /\ \A j \in Insts : j < i => handle[j] # "none"

\* NewServer: binds the listener synchronously, then spawns the serve goroutine
NewServer(i) ==
  /\ variant = "Server" /\ NextInst(i)
  /\ started' = [started EXCEPT ![i] = FALSE]
  /\ IF PortBusy
     THEN /\ handle' = [handle EXCEPT ![i] = "err"]
          /\ ln' = [ln EXCEPT ![i] = "failed"]
          /\ UNCHANGED servePc
     ELSE /\ handle' = [handle EXCEPT ![i] = "ok"]
          /\ ln' = [ln EXCEPT ![i] = "bound"]
          /\ servePc' = [servePc EXCEPT ![i] = "spawned"]
  /\ UNCHANGED <<procVars, connVars, inShutdown, serveLog, serveErr, muxReg, hcReady, hcLive,
                 lockVars, reqVars, notifyVars, closeVars>>

\* NewHealthCheck: registers the handlers on http.DefaultServeMux (a second
\* registration of a pattern panics), spawns the goroutine that will listen,
\* and returns the handle
NewHealthCheck(i) ==
  /\ variant = "HC" /\ NextInst(i)
  /\ IF muxReg # Nil
     THEN /\ crashed' = "multiple registrations"
          /\ UNCHANGED <<variant, portTaken, handle, servePc, muxReg, started, hcReady, hcLive>>
     ELSE /\ muxReg' = i
          /\ handle' = [handle EXCEPT ![i] = "ok"]
          /\ servePc' = [servePc EXCEPT ![i] = "spawned"]
          /\ started' = [started EXCEPT ![i] = FALSE]
          /\ hcReady' = [hcReady EXCEPT ![i] = FALSE]
          /\ hcLive' = [hcLive EXCEPT ![i] = TRUE]
          /\ UNCHANGED procVars
  /\ UNCHANGED <<connVars, ln, inShutdown, serveLog, serveErr, lockVars, reqVars, notifyVars, closeVars>>

\* ---------------------------------------------------------- serve goroutine
\* the goroutine logging every error, http.ErrServerClosed included
LogsError_any(err) == err # "none"

\* the goroutine's test of the error Serve / ListenAndServe returned to it:
\* err != nil && !errors.Is(err, http.ErrServerClosed)
LogsError(err) == err # "none" /\ err # "ErrServerClosed"

\* Serve / ListenAndServe returns err (never nil) and the goroutine ends,
\* having logged err or not
ServeReturns(i, err) ==
  /\ servePc' = [servePc EXCEPT ![i] = "returned"]
  /\ serveErr' = [serveErr EXCEPT ![i] = err]
  /\ serveLog' = [serveLog EXCEPT ![i] = LogsError(err)]

\* http.Server.Serve(ln): refuses a server that is shutting down (and closes
\* the listener it was given), otherwise registers the listener and accepts
Serve(i) ==
  IF inShutdown[i]
  THEN /\ ln' = [ln EXCEPT ![i] = "closed"]
       /\ rPc' = ResetQueued(i)
       /\ ServeReturns(i, "ErrServerClosed")
  ELSE /\ ln' = [ln EXCEPT ![i] = "accepting"]
       /\ servePc' = [servePc EXCEPT ![i] = "loop"]
       /\ UNCHANGED <<rPc, serveLog, serveErr>>

\* the goroutine serving the listener whether or not the server was shut down
ServerServe_ignoresShutdown(i) ==
  /\ Running /\ variant = "Server" /\ servePc[i] = "spawned"
  /\ ln' = [ln EXCEPT ![i] = "accepting"]
  /\ servePc' = [servePc EXCEPT ![i] = "loop"]
  /\ UNCHANGED <<procVars, connVars, handle, inShutdown, serveLog, serveErr, muxReg, flagVars, lockVars,
                 reqVars, notifyVars, closeVars>>

\* the goroutine of NewServer calls srv.Serve(ln)
ServerServe(i) ==
  /\ Running /\ variant = "Server" /\ servePc[i] = "spawned"
  /\ Serve(i)
  /\ UNCHANGED <<procVars, connVars, handle, inShutdown, muxReg, flagVars, lockVars,
                 rTgt, rPath, rStarted, rTest, rStatus, rAfterNotify, rAfterClose, rAfterTrue, notifyVars, closeVars>>

\* the goroutine of NewHealthCheck calls srv.ListenAndServe(), which first
\* refuses a server that is shutting down (http.ErrServerClosed, not logged)
HCListenAndServe(i) ==
  /\ Running /\ variant = "HC" /\ servePc[i] = "spawned"
  /\ IF inShutdown[i]
     THEN ServeReturns(i, "ErrServerClosed")
     ELSE /\ servePc' = [servePc EXCEPT ![i] = "listen"]
          /\ UNCHANGED <<serveLog, serveErr>>
  /\ UNCHANGED <<procVars, connVars, handle, ln, inShutdown, muxReg, flagVars, lockVars,
                 reqVars, notifyVars, closeVars>>

\* ... then binds portNum; a bind failure is returned to the goroutine, which logs it
HCListen(i) ==
  /\ Running /\ variant = "HC" /\ servePc[i] = "listen"
  /\ IF PortBusy
     THEN /\ ln' = [ln EXCEPT ![i] = "failed"]
          /\ ServeReturns(i, "other")
     ELSE /\ ln' = [ln EXCEPT ![i] = "bound"]
          /\ servePc' = [servePc EXCEPT ![i] = "serve"]
          /\ UNCHANGED <<serveLog, serveErr>>
  /\ UNCHANGED <<procVars, connVars, handle, inShutdown, muxReg, flagVars, lockVars,
                 reqVars, notifyVars, closeVars>>

\* ... then serves the listener
HCServe(i) ==
  /\ Running /\ variant = "HC" /\ servePc[i] = "serve"
  /\ Serve(i)
  /\ UNCHANGED <<procVars, connVars, handle, inShutdown, muxReg, flagVars, lockVars,
                 rTgt, rPath, rStarted, rTest, rStatus, rAfterNotify, rAfterClose, rAfterTrue, notifyVars, closeVars>>

\* Serve returns http.ErrServerClosed once Shutdown has closed its listener:
\* the goroutine logs nothing
ServeClosed(i) ==
  /\ Running /\ servePc[i] = "loop" /\ ln[i] = "closed"
  /\ ServeReturns(i, "ErrServerClosed")
  /\ UNCHANGED <<procVars, connVars, handle, ln, inShutdown, muxReg, flagVars, lockVars,
                 reqVars, notifyVars, closeVars>>

\* Serve returns another error (Accept failed for good): the goroutine logs it,
\* and Serve's deferred Close closes the listener
ServeFailed(i) ==
  /\ Running /\ servePc[i] = "loop" /\ ln[i] = "accepting"
  /\ ln' = [ln EXCEPT ![i] = "closed"]
  /\ rPc' = ResetQueued(i)
  /\ ServeReturns(i, "other")
  /\ UNCHANGED <<procVars, connVars, handle, inShutdown, muxReg, flagVars, lockVars,
                 rTgt, rPath, rStarted, rTest, rStatus, rAfterNotify, rAfterClose, rAfterTrue, notifyVars, closeVars>>

\* ------------------------------------------------------------------ notify
\* calls are numbered in the order they are made
NextNotify(n) == MayCall /\ nPc[n] = "idle" /\ \A k \in Notifs : k < n => nPc[k] # "idle"

\* Server.NotifyStarted is called on a handle NewServer returned
NotifyStartedCall(n, i) ==
  /\ variant = "Server" /\ NextNotify(n) /\ handle[i] = "ok"
  /\ nPc' = [nPc EXCEPT ![n] = "lock"]
  /\ nTgt' = [nTgt EXCEPT ![n] = i]
  /\ notifyCalled' = [notifyCalled EXCEPT ![i] = TRUE]
  /\ UNCHANGED <<procVars, connVars, srvVars, flagVars, lockVars, reqVars, notifyReturned, closeVars>>

\* NotifyStarted taking the lock without waiting for its holder
NotifyStartedLock_noWait(n) ==
  /\ Running /\ variant = "Server" /\ nPc[n] = "lock"
  /\ startedL' = [startedL EXCEPT ![nTgt[n]] = <<"notify", n>>]
  /\ nPc' = [nPc EXCEPT ![n] = "write"]
  /\ UNCHANGED <<procVars, connVars, srvVars, flagVars, startupL, readinessL, livenessL, reqVars,
                 nTgt, notifyCalled, notifyReturned, closeVars>>

\* s.startedL.Lock()
NotifyStartedLock(n) ==
  /\ Running /\ variant = "Server" /\ nPc[n] = "lock"
  /\ startedL[nTgt[n]] = Free
  /\ startedL' = [startedL EXCEPT ![nTgt[n]] = <<"notify", n>>]
  /\ nPc' = [nPc EXCEPT ![n] = "write"]
  /\ UNCHANGED <<procVars, connVars, srvVars, flagVars, startupL, readinessL, livenessL, reqVars,
                 nTgt, notifyCalled, notifyReturned, closeVars>>

\* NotifyStarted flipping the flag instead of setting it
NotifyStartedWrite_toggles(n) ==
  /\ Running /\ variant = "Server" /\ nPc[n] = "write"
  /\ started' = [started EXCEPT ![nTgt[n]] = ~started[nTgt[n]]]
  /\ nPc' = [nPc EXCEPT ![n] = "unlock"]
  /\ UNCHANGED <<procVars, connVars, srvVars, hcReady, hcLive, lockVars, reqVars,
                 nTgt, notifyCalled, notifyReturned, closeVars>>

\* NotifyStarted returning at once, lock in hand, when started is already set
NotifyStartedWrite_returnsEarly(n) ==
  /\ Running /\ variant = "Server" /\ nPc[n] = "write"
  /\ started' = [started EXCEPT ![nTgt[n]] = TRUE]
  /\ nPc' = [nPc EXCEPT ![n] = IF started[nTgt[n]] THEN "returned" ELSE "unlock"]
  /\ UNCHANGED <<procVars, connVars, srvVars, hcReady, hcLive, lockVars, reqVars,
                 nTgt, notifyCalled, notifyReturned, closeVars>>

\* s.started = true
NotifyStartedWrite(n) ==
  /\ Running /\ variant = "Server" /\ nPc[n] = "write"
  /\ started' = [started EXCEPT ![nTgt[n]] = TRUE]
  /\ nPc' = [nPc EXCEPT ![n] = "unlock"]
  /\ UNCHANGED <<procVars, connVars, srvVars, hcReady, hcLive, lockVars, reqVars,
                 nTgt, notifyCalled, notifyReturned, closeVars>>

\* s.startedL.Unlock(), and the call returns
NotifyStartedUnlock(n) ==
  /\ Running /\ variant = "Server" /\ nPc[n] = "unlock"
  /\ startedL' = [startedL EXCEPT ![nTgt[n]] = Free]
  /\ nPc' = [nPc EXCEPT ![n] = "returned"]
  /\ notifyReturned' = [notifyReturned EXCEPT ![nTgt[n]] = TRUE]
  /\ UNCHANGED <<procVars, connVars, srvVars, flagVars, startupL, readinessL, livenessL, reqVars,
                 nTgt, notifyCalled, closeVars>>

\* HC.NotifyReadyForConnections is called on the handle NewHealthCheck
\* returned, or on a nil handle, for which it does nothing
NotifyReadyCall(n, i) ==
  /\ variant = "HC" /\ NextNotify(n)
  /\ IF i = Nil THEN TRUE ELSE handle[i] = "ok"
  /\ nTgt' = [nTgt EXCEPT ![n] = i]
  /\ IF i = Nil
     THEN /\ nPc' = [nPc EXCEPT ![n] = "returned"]
          /\ UNCHANGED notifyCalled
     ELSE /\ nPc' = [nPc EXCEPT ![n] = "lock"]
          /\ notifyCalled' = [notifyCalled EXCEPT ![i] = TRUE]
  /\ UNCHANGED <<procVars, connVars, srvVars, flagVars, lockVars, reqVars, notifyReturned, closeVars>>

\* startupL.Lock()
NotifyReadyLock(n) ==
  /\ Running /\ variant = "HC" /\ nPc[n] = "lock"
  /\ startupL = Free
  /\ startupL' = <<"notify", n>>
  /\ nPc' = [nPc EXCEPT ![n] = "write"]
  /\ UNCHANGED <<procVars, connVars, srvVars, flagVars, startedL, readinessL, livenessL, reqVars,
                 nTgt, notifyCalled, notifyReturned, closeVars>>

\* NotifyReadyForConnections flipping the flag instead of setting it
NotifyReadyWrite_toggles(n) ==
  /\ Running /\ variant = "HC" /\ nPc[n] = "write"
  /\ started' = [started EXCEPT ![nTgt[n]] = ~started[nTgt[n]]]
  /\ nPc' = [nPc EXCEPT ![n] = "unlock"]
  /\ UNCHANGED <<procVars, connVars, srvVars, hcReady, hcLive, lockVars, reqVars,
                 nTgt, notifyCalled, notifyReturned, closeVars>>

\* hc.started = true
NotifyReadyWrite(n) ==
  /\ Running /\ variant = "HC" /\ nPc[n] = "write"
  /\ started' = [started EXCEPT ![nTgt[n]] = TRUE]
  /\ nPc' = [nPc EXCEPT ![n] = "unlock"]
  /\ UNCHANGED <<procVars, connVars, srvVars, hcReady, hcLive, lockVars, reqVars,
                 nTgt, notifyCalled, notifyReturned, closeVars>>

\* startupL.Unlock(), and the call returns
NotifyReadyUnlock(n) ==
  /\ Running /\ variant = "HC" /\ nPc[n] = "unlock"
  /\ startupL' = Free
  /\ nPc' = [nPc EXCEPT ![n] = "returned"]
  /\ notifyReturned' = [notifyReturned EXCEPT ![nTgt[n]] = TRUE]
  /\ UNCHANGED <<procVars, connVars, srvVars, flagVars, startedL, readinessL, livenessL, reqVars,
                 nTgt, notifyCalled, closeVars>>

\* ------------------------------------------------------------------- close
\* calls are numbered in the order they are made
NextClose(c) == MayCall /\ cPc[c] = "idle" /\ \A k \in Closes : k < c => cPc[k] # "idle"

\* http.Server.Shutdown, first part: marks the server as shutting down and
\* closes the listeners Serve has registered
ShutdownBegin(i) ==
  /\ inShutdown' = [inShutdown EXCEPT ![i] = TRUE]
  /\ IF ln[i] = "accepting"
     THEN /\ ln' = [ln EXCEPT ![i] = "closed"]
          /\ rPc' = ResetQueued(i)
     ELSE UNCHANGED <<ln, rPc>>

\* Close waiting for the handlers without shutting the server down
CloseCall_noShutdown(c, i) ==
  /\ variant = "Server" /\ NextClose(c) /\ handle[i] = "ok"
  /\ cTgt' = [cTgt EXCEPT ![c] = i]
  /\ cPc' = [cPc EXCEPT ![c] = "poll"]
  /\ cRepeat' = [cRepeat EXCEPT ![c] = closedOk[i]]
  /\ UNCHANGED <<procVars, connVars, srvVars, flagVars, lockVars, reqVars, notifyVars,
                 cErr, cDeadline, closedOk>>

\* Close panicking when the server is already shut down
CloseCall_panicsWhenClosed(c, i) ==
  /\ variant = "Server" /\ NextClose(c) /\ handle[i] = "ok"
  /\ cTgt' = [cTgt EXCEPT ![c] = i]
  /\ cPc' = [cPc EXCEPT ![c] = "poll"]
  /\ cRepeat' = [cRepeat EXCEPT ![c] = closedOk[i]]
  /\ crashed' = IF inShutdown[i] THEN "close of a closed server" ELSE crashed
  /\ ShutdownBegin(i)
  /\ UNCHANGED <<variant, portTaken, connVars, handle, servePc, serveLog, serveErr, muxReg, flagVars, lockVars,
                 rTgt, rPath, rStarted, rTest, rStatus, rAfterNotify, rAfterClose, rAfterTrue, notifyVars,
                 cErr, cDeadline, closedOk>>

\* Server.Close(ctx) is called on a handle NewServer returned: s.srv.Shutdown(ctx) begins
CloseCall(c, i) ==
  /\ variant = "Server" /\ NextClose(c) /\ handle[i] = "ok"
  /\ cTgt' = [cTgt EXCEPT ![c] = i]
  /\ cPc' = [cPc EXCEPT ![c] = "poll"]
  /\ cRepeat' = [cRepeat EXCEPT ![c] = closedOk[i]]
  /\ ShutdownBegin(i)
  /\ UNCHANGED <<procVars, connVars, handle, servePc, serveLog, serveErr, muxReg, flagVars, lockVars,
                 rTgt, rPath, rStarted, rTest, rStatus, rAfterNotify, rAfterClose, rAfterTrue, notifyVars,
                 cErr, cDeadline, closedOk>>

\* CloseHealthCheck resetting started as it shuts the server down
CloseHealthCheckCall_resetsStarted(c, i) ==
  /\ variant = "HC" /\ NextClose(c)
  /\ IF i = Nil THEN TRUE ELSE handle[i] = "ok"
  /\ cTgt' = [cTgt EXCEPT ![c] = i]
  /\ IF i = Nil
     THEN /\ cPc' = [cPc EXCEPT ![c] = "returned"]
          /\ cErr' = [cErr EXCEPT ![c] = "nil"]
          /\ UNCHANGED <<ln, inShutdown, rPc, cRepeat, started>>
     ELSE /\ cPc' = [cPc EXCEPT ![c] = "poll"]
          /\ cRepeat' = [cRepeat EXCEPT ![c] = closedOk[i]]
          /\ started' = [started EXCEPT ![i] = FALSE]
          /\ ShutdownBegin(i)
          /\ UNCHANGED cErr
  /\ UNCHANGED <<procVars, connVars, handle, servePc, serveLog, serveErr, muxReg, hcReady, hcLive, lockVars,
                 rTgt, rPath, rStarted, rTest, rStatus, rAfterNotify, rAfterClose, rAfterTrue, notifyVars,
                 cDeadline, closedOk>>

\* HC.CloseHealthCheck() is called on the handle NewHealthCheck returned:
\* hc.srv.Shutdown(context.Background()) begins; on a nil handle it does nothing
CloseHealthCheckCall(c, i) ==
  /\ variant = "HC" /\ NextClose(c)
  /\ IF i = Nil THEN TRUE ELSE handle[i] = "ok"
  /\ cTgt' = [cTgt EXCEPT ![c] = i]
  /\ IF i = Nil
     THEN /\ cPc' = [cPc EXCEPT ![c] = "returned"]
          /\ cErr' = [cErr EXCEPT ![c] = "nil"]
          /\ UNCHANGED <<ln, inShutdown, rPc, cRepeat>>
     ELSE /\ cPc' = [cPc EXCEPT ![c] = "poll"]
          /\ cRepeat' = [cRepeat EXCEPT ![c] = closedOk[i]]
          /\ ShutdownBegin(i)
          /\ UNCHANGED cErr
  /\ UNCHANGED <<procVars, connVars, handle, servePc, serveLog, serveErr, muxReg, flagVars, lockVars,
                 rTgt, rPath, rStarted, rTest, rStatus, rAfterNotify, rAfterClose, rAfterTrue, notifyVars,
                 cDeadline, closedOk>>

\* Shutdown's loop: once no connection is active it returns nil, and so does
\* the close call (CloseHealthCheck returns nothing and logs nothing)
ShutdownPoll(c) ==
  /\ Running /\ cPc[c] = "poll"
  /\ IF InFlight(cTgt[c]) = {}
     THEN /\ cPc' = [cPc EXCEPT ![c] = "returned"]
          /\ cErr' = [cErr EXCEPT ![c] = "nil"]
          /\ closedOk' = [closedOk EXCEPT ![cTgt[c]] = TRUE]
     ELSE /\ cPc' = [cPc EXCEPT ![c] = "select"]
          /\ UNCHANGED <<cErr, closedOk>>
  /\ UNCHANGED <<procVars, connVars, srvVars, flagVars, lockVars, reqVars, notifyVars, cTgt, cDeadline, cRepeat>>

\* the context Shutdown was given is done: Server.Close passes the caller's
\* ctx, CloseHealthCheck passes context.Background(), which never is
CtxDone(c) == variant = "Server" /\ cDeadline[c]

\* Shutdown's select, case <-ctx.Done(): it returns ctx.Err(), which
\* Server.Close returns to its caller
ShutdownTimeout(c) ==
  /\ Running /\ cPc[c] = "select"
  /\ CtxDone(c)
  /\ cPc' = [cPc EXCEPT ![c] = "returned"]
  /\ cErr' = [cErr EXCEPT ![c] = "deadline"]
  /\ UNCHANGED <<procVars, connVars, srvVars, flagVars, lockVars, reqVars, notifyVars, cTgt, cDeadline, cRepeat, closedOk>>

\* Shutdown's select, case <-timer.C: it polls again
ShutdownTick(c) ==
  /\ Running /\ cPc[c] = "select"
  /\ cPc' = [cPc EXCEPT ![c] = "poll"]
  /\ UNCHANGED <<procVars, connVars, srvVars, flagVars, lockVars, reqVars, notifyVars, cTgt, cErr, cDeadline, cRepeat, closedOk>>

\* the deadline the caller of a close call works to passes
DeadlinePasses(c) ==
  /\ Running /\ cPc[c] = "select" /\ ~cDeadline[c]
  /\ cDeadline' = [cDeadline EXCEPT ![c] = TRUE]
  /\ UNCHANGED <<procVars, connVars, srvVars, flagVars, lockVars, reqVars, notifyVars, cPc, cTgt, cErr, cRepeat, closedOk>>

\* ------------------------------------------------------------- collaborator
\* the proxy opens or closes a connection
ConnChange ==
  /\ Running
  /\ \E d \in {-1, 1} : cur + d \in 0..MaxCur /\ cur' = cur + d
  /\ UNCHANGED <<procVars, max, srvVars, flagVars, lockVars, reqVars, notifyVars, closeVars>>

\* proxy.Client.AvailableConn
AvailableConn(c, m) == m = 0 \/ c < m

\* ---------------------------------------------------------------- predicates
\* isLive
isLive == TRUE

\* isReady without its test of started
isReady_ignoresStarted(st, c, m) == AvailableConn(c, m)

\* isReady, after its locked read of s.started
isReady(st, c, m) ==
  IF ~st THEN FALSE
  ELSE IF ~AvailableConn(c, m) THEN FALSE
  ELSE TRUE

\* livenessTest answering with the zero value
livenessTest_false == FALSE

\* livenessTest
livenessTest == TRUE

\* readinessTest with the limit compared by > instead of >=
readinessTest_offByOne(st, c, m) ==
  IF ~st THEN FALSE
  ELSE IF m > 0 /\ c > m THEN FALSE
  ELSE TRUE

\* readinessTest, after its locked read of hc.started
readinessTest(st, c, m) ==
  IF ~st THEN FALSE
  ELSE IF m > 0 /\ c >= m THEN FALSE
  ELSE TRUE

\* ----------------------------------------------------------------- requests
\* requests are numbered in the order they are sent
NextReq(r) == MayCall /\ rPc[r] = "new" /\ \A k \in Reqs : k < r => rPc[k] # "new"

\* the instance whose fields the handlers read: the closures NewServer
\* registers on its own mux capture hcServer, those NewHealthCheck registers
\* on http.DefaultServeMux capture hc
HInst(r) == IF variant = "Server" THEN rTgt[r] ELSE muxReg

\* some readiness query answered from instance i has completed, having read
\* started = true
SeenTrue(i) ==
  \E q \in Reqs : rPc[q] = "done" /\ rPath[q] = readinessPath /\ HInst(q) = i /\ rStarted[q]

\* where the handler of path p starts
Entry(p) ==
  IF variant = "Server"
  THEN (IF p = readinessPath THEN "sLock" ELSE "sLive")
  ELSE (IF p = readinessPath THEN "hLockR" ELSE "hLockL")

\* the orchestrator sends GET p to server i.  With Serve's loop accepting,
\* the connection is accepted and its goroutine calls the handler of p; with
\* the listener bound but not served yet, the connection waits in its
\* backlog; without an open listener the connection is refused
Send(r, i, p) ==
  /\ NextReq(r) /\ handle[i] = "ok" /\ ~portTaken
  /\ rTgt' = [rTgt EXCEPT ![r] = i]
  /\ rPath' = [rPath EXCEPT ![r] = p]
  /\ rPc' = [rPc EXCEPT ![r] = IF ln[i] = "accepting" THEN Entry(p)
                                ELSE IF ln[i] = "bound" THEN "queued"
                                ELSE "refused"]
  /\ rAfterClose' = [rAfterClose EXCEPT ![r] = closedOk[i]]
  /\ rAfterNotify' = [rAfterNotify EXCEPT ![r] =
                        IF ln[i] = "accepting"
                        THEN notifyReturned[IF variant = "Server" THEN i ELSE muxReg]
                        ELSE FALSE]
  /\ rAfterTrue' = [rAfterTrue EXCEPT ![r] =
                      ln[i] = "accepting" /\ SeenTrue(IF variant = "Server" THEN i ELSE muxReg)]
  /\ UNCHANGED <<procVars, connVars, srvVars, flagVars, lockVars, rStarted, rTest, rStatus,
                 notifyVars, closeVars>>

\* Serve's loop accepts a connection that waited in the backlog
Accept(r) ==
  /\ Running /\ rPc[r] = "queued" /\ ln[rTgt[r]] = "accepting"
  /\ rPc' = [rPc EXCEPT ![r] = Entry(rPath[r])]
  /\ rAfterNotify' = [rAfterNotify EXCEPT ![r] = notifyReturned[HInst(r)]]
  /\ rAfterTrue' = [rAfterTrue EXCEPT ![r] = SeenTrue(HInst(r))]
  /\ UNCHANGED <<procVars, connVars, srvVars, flagVars, lockVars, rTgt, rPath, rStarted, rTest, rStatus,
                 rAfterClose, notifyVars, closeVars>>

\* ------------------------------------------------- handlers, Server variant
reqFrame == <<procVars, connVars, srvVars, notifyVars, closeVars, rTgt, rPath, rAfterNotify, rAfterClose, rAfterTrue>>

\* isReady: s.startedL.Lock()
ServerReadyLock(r) ==
  /\ Running /\ rPc[r] = "sLock"
  /\ startedL[HInst(r)] = Free
  /\ startedL' = [startedL EXCEPT ![HInst(r)] = <<"request", r>>]
  /\ rPc' = [rPc EXCEPT ![r] = "sRead"]
  /\ UNCHANGED <<reqFrame, flagVars, startupL, readinessL, livenessL, rStarted, rTest, rStatus>>

\* isReady consuming the flag: reading started and resetting it
ServerReadyRead_consumes(r) ==
  /\ Running /\ rPc[r] = "sRead"
  /\ rStarted' = [rStarted EXCEPT ![r] = started[HInst(r)]]
  /\ started' = [started EXCEPT ![HInst(r)] = FALSE]
  /\ rPc' = [rPc EXCEPT ![r] = "sUnlock"]
  /\ UNCHANGED <<reqFrame, hcReady, hcLive, lockVars, rTest, rStatus>>

\* isReady: started := s.started
ServerReadyRead(r) ==
  /\ Running /\ rPc[r] = "sRead"
  /\ rStarted' = [rStarted EXCEPT ![r] = started[HInst(r)]]
  /\ rPc' = [rPc EXCEPT ![r] = "sUnlock"]
  /\ UNCHANGED <<reqFrame, flagVars, lockVars, rTest, rStatus>>

\* isReady: s.startedL.Unlock()
ServerReadyUnlock(r) ==
  /\ Running /\ rPc[r] = "sUnlock"
  /\ startedL' = [startedL EXCEPT ![HInst(r)] = Free]
  /\ rPc' = [rPc EXCEPT ![r] = "sTest"]
  /\ UNCHANGED <<reqFrame, flagVars, startupL, readinessL, livenessL, rStarted, rTest, rStatus>>

\* the readiness handler counting its own probe as a connection
ServerReadyRespond_countsProbe(r) ==
  /\ Running /\ rPc[r] = "sTest"
  /\ rTest' = [rTest EXCEPT ![r] = isReady(rStarted[r], cur, max)]
  /\ rStatus' = [rStatus EXCEPT ![r] = IF ~rTest'[r] THEN 500 ELSE 200]
  /\ rPc' = [rPc EXCEPT ![r] = "done"]
  /\ cur' = cur + 1
  /\ UNCHANGED <<procVars, max, srvVars, notifyVars, closeVars, rTgt, rPath, rAfterNotify,
                 rAfterClose, rAfterTrue, flagVars, lockVars, rStarted>>

\* the rest of isReady, and the readiness handler's response
ServerReadyRespond(r) ==
  /\ Running /\ rPc[r] = "sTest"
  /\ rTest' = [rTest EXCEPT ![r] = isReady(rStarted[r], cur, max)]
  /\ rStatus' = [rStatus EXCEPT ![r] = IF ~rTest'[r] THEN 500 ELSE 200]
  /\ rPc' = [rPc EXCEPT ![r] = "done"]
  /\ UNCHANGED <<reqFrame, flagVars, lockVars, rStarted>>

\* the liveness handler
ServerLive(r) ==
  /\ Running /\ rPc[r] = "sLive"
  /\ rTest' = [rTest EXCEPT ![r] = isLive]
  /\ rStatus' = [rStatus EXCEPT ![r] = IF ~rTest'[r] THEN 500 ELSE 200]
  /\ rPc' = [rPc EXCEPT ![r] = "done"]
  /\ UNCHANGED <<reqFrame, flagVars, lockVars, rStarted>>

\* ----------------------------------------------------- handlers, HC variant
\* readiness handler: readinessL.Lock()
HCReadyLock(r) ==
  /\ Running /\ rPc[r] = "hLockR"
  /\ readinessL = Free
  /\ readinessL' = <<"request", r>>
  /\ rPc' = [rPc EXCEPT ![r] = "hLockS"]
  /\ UNCHANGED <<reqFrame, flagVars, startedL, startupL, livenessL, rStarted, rTest, rStatus>>

\* readinessTest: startupL.Lock()
HCStartupLock(r) ==
  /\ Running /\ rPc[r] = "hLockS"
  /\ startupL = Free
  /\ startupL' = <<"request", r>>
  /\ rPc' = [rPc EXCEPT ![r] = "hRead"]
  /\ UNCHANGED <<reqFrame, flagVars, startedL, readinessL, livenessL, rStarted, rTest, rStatus>>

\* readinessTest: the read of hc.started
HCStartupRead(r) ==
  /\ Running /\ rPc[r] = "hRead"
  /\ rStarted' = [rStarted EXCEPT ![r] = started[HInst(r)]]
  /\ rPc' = [rPc EXCEPT ![r] = "hUnlockS"]
  /\ UNCHANGED <<reqFrame, flagVars, lockVars, rTest, rStatus>>

\* readinessTest unlocking on the started branch only
HCStartupUnlock_startedOnly(r) ==
  /\ Running /\ rPc[r] = "hUnlockS"
  /\ startupL' = IF rStarted[r] THEN Free ELSE startupL
  /\ rPc' = [rPc EXCEPT ![r] = "hTest"]
  /\ UNCHANGED <<reqFrame, flagVars, startedL, readinessL, livenessL, rStarted, rTest, rStatus>>

\* readinessTest: startupL.Unlock(), on either branch
HCStartupUnlock(r) ==
  /\ Running /\ rPc[r] = "hUnlockS"
  /\ startupL' = Free
  /\ rPc' = [rPc EXCEPT ![r] = "hTest"]
  /\ UNCHANGED <<reqFrame, flagVars, startedL, readinessL, livenessL, rStarted, rTest, rStatus>>

\* the readiness handler releasing readinessL as soon as hc.ready is stored
HCReadyStore_unlocksEarly(r) ==
  /\ Running /\ rPc[r] = "hTest"
  /\ rTest' = [rTest EXCEPT ![r] = readinessTest(rStarted[r], cur, max)]
  /\ hcReady' = [hcReady EXCEPT ![HInst(r)] = rTest'[r]]
  /\ readinessL' = Free
  /\ rPc' = [rPc EXCEPT ![r] = "hResp"]
  /\ UNCHANGED <<reqFrame, started, hcLive, startedL, startupL, livenessL, rStarted, rStatus>>

\* hc.ready = readinessTest(proxyClient, hc): the rest of readinessTest and the store
HCReadyStore(r) ==
  /\ Running /\ rPc[r] = "hTest"
  /\ rTest' = [rTest EXCEPT ![r] = readinessTest(rStarted[r], cur, max)]
  /\ hcReady' = [hcReady EXCEPT ![HInst(r)] = rTest'[r]]
  /\ rPc' = [rPc EXCEPT ![r] = "hResp"]
  /\ UNCHANGED <<reqFrame, started, hcLive, lockVars, rStarted, rStatus>>

\* if !hc.ready: readinessL.Unlock() and the response, on either branch
HCReadyRespond(r) ==
  /\ Running /\ rPc[r] = "hResp"
  /\ rStatus' = [rStatus EXCEPT ![r] = IF ~hcReady[HInst(r)] THEN 500 ELSE 200]
  /\ readinessL' = Free
  /\ rPc' = [rPc EXCEPT ![r] = "done"]
  /\ UNCHANGED <<reqFrame, flagVars, startedL, startupL, livenessL, rStarted, rTest>>

\* liveness handler: livenessL.Lock()
HCLiveLock(r) ==
  /\ Running /\ rPc[r] = "hLockL"
  /\ livenessL = Free
  /\ livenessL' = <<"request", r>>
  /\ rPc' = [rPc EXCEPT ![r] = "hTestL"]
  /\ UNCHANGED <<reqFrame, flagVars, startedL, startupL, readinessL, rStarted, rTest, rStatus>>

\* hc.live = livenessTest()
HCLiveStore(r) ==
  /\ Running /\ rPc[r] = "hTestL"
  /\ rTest' = [rTest EXCEPT ![r] = livenessTest]
  /\ hcLive' = [hcLive EXCEPT ![HInst(r)] = rTest'[r]]
  /\ rPc' = [rPc EXCEPT ![r] = "hRespL"]
  /\ UNCHANGED <<reqFrame, started, hcReady, lockVars, rStarted, rStatus>>

\* if !hc.live: livenessL.Unlock() and the response, on either branch
HCLiveRespond(r) ==
  /\ Running /\ rPc[r] = "hRespL"
  /\ rStatus' = [rStatus EXCEPT ![r] = IF ~hcLive[HInst(r)] THEN 500 ELSE 200]
  /\ livenessL' = Free
  /\ rPc' = [rPc EXCEPT ![r] = "done"]
  /\ UNCHANGED <<reqFrame, flagVars, startedL, startupL, readinessL, rStarted, rTest>>

\* -------------------------------------------------------------------- next
Construct == \E i \in Insts : NewServer(i) \/ NewHealthCheck(i)

ServeTask ==
  \/ \E i \in Insts : ServerServe(i) \/ HCListenAndServe(i) \/ HCListen(i) \/ HCServe(i)
  \/ \E i \in Insts : ServeClosed(i) \/ ServeFailed(i)

Notify ==
  \/ \E n \in Notifs, i \in Insts : NotifyStartedCall(n, i)
  \/ \E n \in Notifs : NotifyStartedLock(n) \/ NotifyStartedWrite(n) \/ NotifyStartedUnlock(n)
  \/ \E n \in Notifs, i \in Insts \cup {Nil} : NotifyReadyCall(n, i)
  \/ \E n \in Notifs : NotifyReadyLock(n) \/ NotifyReadyWrite(n) \/ NotifyReadyUnlock(n)

CloseStep ==
  \/ \E c \in Closes, i \in Insts : CloseCall(c, i)
  \/ \E c \in Closes, i \in Insts \cup {Nil} : CloseHealthCheckCall(c, i)
  \/ \E c \in Closes : ShutdownPoll(c) \/ ShutdownTimeout(c) \/ ShutdownTick(c)

Handler ==
  \/ \E r \in Reqs : ServerReadyLock(r) \/ ServerReadyRead(r) \/ ServerReadyUnlock(r)
  \/ \E r \in Reqs : ServerReadyRespond(r) \/ ServerLive(r)
  \/ \E r \in Reqs : HCReadyLock(r) \/ HCStartupLock(r) \/ HCStartupRead(r) \/ HCStartupUnlock(r)
  \/ \E r \in Reqs : HCReadyStore(r) \/ HCReadyRespond(r)
  \/ \E r \in Reqs : HCLiveLock(r) \/ HCLiveStore(r) \/ HCLiveRespond(r)

Request ==
  \/ \E r \in Reqs, i \in Insts, p \in {readinessPath, livenessPath} : Send(r, i, p)
  \/ \E r \in Reqs : Accept(r)
  \/ Handler

Environment ==
  \/ ConnChange
  \/ \E c \in Closes : DeadlinePasses(c)

Next == Construct \/ ServeTask \/ Notify \/ CloseStep \/ Request \/ Environment

Spec == Init /\ [][Next]_vars

\* ---------------------------------------------------------------- fairness
\* the steps of the goroutine that runs the handler of request r
ReqStep(r) ==
  \/ ServerReadyLock(r) \/ ServerReadyRead(r) \/ ServerReadyUnlock(r)
  \/ ServerReadyRespond(r) \/ ServerLive(r)
  \/ HCReadyLock(r) \/ HCStartupLock(r) \/ HCStartupRead(r) \/ HCStartupUnlock(r)
  \/ HCReadyStore(r) \/ HCReadyRespond(r)
  \/ HCLiveLock(r) \/ HCLiveStore(r) \/ HCLiveRespond(r)

\* the steps of notify call n after it was made
NotifyStep(n) ==
  \/ NotifyStartedLock(n) \/ NotifyStartedWrite(n) \/ NotifyStartedUnlock(n)
  \/ NotifyReadyLock(n) \/ NotifyReadyWrite(n) \/ NotifyReadyUnlock(n)

\* the Go scheduler runs every goroutine that can run, and a sync.Mutex that
\* is released again and again is granted to a goroutine that keeps waiting
\* for it (starvation mode)
Fairness ==
  /\ \A r \in Reqs : SF_vars(ReqStep(r))
  /\ \A n \in Notifs : SF_vars(NotifyStep(n))

SpecFair == Spec /\ Fairness

\* ------------------------------------------- the readiness predicate alone
\* a server that is serving, with any value of started (true after a notify
\* call that has returned) and any connection count and limit up to MaxCount
InitReady ==
  /\ variant \in {"Server", "HC"}
  /\ portTaken = FALSE
  /\ crashed = "none"
  /\ cur \in 0..MaxCount
  /\ max \in 0..MaxCount
  /\ handle = [i \in Insts |-> IF i = 1 THEN "ok" ELSE "none"]
  /\ ln = [i \in Insts |-> IF i = 1 THEN "accepting" ELSE "none"]
  /\ inShutdown = [i \in Insts |-> FALSE]
  /\ servePc = [i \in Insts |-> IF i = 1 THEN "loop" ELSE "none"]
  /\ serveLog = [i \in Insts |-> FALSE]
  /\ serveErr = [i \in Insts |-> "none"]
  /\ \E st \in BOOLEAN :
       /\ started = [i \in Insts |-> i = 1 /\ st]
       /\ notifyCalled = [i \in Insts |-> i = 1 /\ st]
       /\ notifyReturned = [i \in Insts |-> i = 1 /\ st]
       /\ nPc = [n \in Notifs |-> IF n = 1 /\ st THEN "returned" ELSE "idle"]
       /\ nTgt = [n \in Notifs |-> IF n = 1 /\ st THEN 1 ELSE Nil]
  /\ startedL = [i \in Insts |-> Free]
  /\ startupL = Free
  /\ readinessL = Free
  /\ livenessL = Free
  /\ hcReady = [i \in Insts |-> FALSE]
  /\ hcLive = [i \in Insts |-> i = 1 /\ variant = "HC"]
  /\ muxReg = IF variant = "HC" THEN 1 ELSE Nil
  /\ rPc = [r \in Reqs |-> "new"]
  /\ rTgt = [r \in Reqs |-> Nil]
  /\ rPath = [r \in Reqs |-> readinessPath]
  /\ rStarted = [r \in Reqs |-> FALSE]
  /\ rTest = [r \in Reqs |-> FALSE]
  /\ rStatus = [r \in Reqs |-> 0]
  /\ rAfterNotify = [r \in Reqs |-> FALSE]
  /\ rAfterClose = [r \in Reqs |-> FALSE]
  /\ rAfterTrue = [r \in Reqs |-> FALSE]
  /\ cPc = [c \in Closes |-> "idle"]
  /\ cTgt = [c \in Closes |-> Nil]
  /\ cErr = [c \in Closes |-> "none"]
  /\ cDeadline = [c \in Closes |-> FALSE]
  /\ cRepeat = [c \in Closes |-> FALSE]
  /\ closedOk = [i \in Insts |-> FALSE]

\* probes only: nothing changes started, the count or the limit
NextReady ==
  \/ \E r \in Reqs, i \in Insts, p \in {readinessPath, livenessPath} : Send(r, i, p)
  \/ Handler

SpecReady == InitReady /\ [][NextReady]_vars

\* ------------------------------------------------------------------ claims
\* a request to path p has been answered
Answered(r, p) == rPc[r] = "done" /\ rPath[r] = p

\* the handler of request r is running
InHandler(r) == rPc[r] \notin {"new", "queued", "refused", "done"}

\* the mutexes thread t holds
LocksHeld(t) ==
  {i \in Insts : startedL[i] = t}
  \cup (IF startupL = t THEN {"startupL"} ELSE {})
  \cup (IF readinessL = t THEN {"readinessL"} ELSE {})
  \cup (IF livenessL = t THEN {"livenessL"} ELSE {})

\* the mutex that protects the started field of instance i: the startedL
\* field of a Server, the package-level startupL for an HC
StartedLock(i) == IF variant = "Server" THEN startedL[i] ELSE startupL

\* the threads that are at their read or their write of started of instance i
Accessing(i) ==
  {<<"request", r>> : r \in {q \in Reqs : rPc[q] \in {"sRead", "hRead"} /\ HInst(q) = i}}
  \cup {<<"notify", n>> : n \in {k \in Notifs : nPc[k] = "write" /\ nTgt[k] = i}}

\* C1: as long as no notify call has been made on a server, every /readiness
\* request it has answered was answered 500, whatever the connection count
\* and the limit are.
C1_NotReadyBeforeNotify ==
  \A r \in Reqs :
    (Answered(r, readinessPath) /\ ~notifyCalled[HInst(r)]) => rStatus[r] = 500

\* C1 witness: an unnotified server answered /readiness 500 with an unlimited collaborator.
C1_Witness ==
  \E r \in Reqs :
    /\ Answered(r, readinessPath) /\ ~notifyCalled[HInst(r)]
    /\ rStatus[r] = 500 /\ max = 0

\* C2: a readiness handler that begins after some notify call on its server
\* has returned reads started = true, its test returns true whenever the limit
\* is 0 or the count is below it, and it answers 200 exactly when its test
\* returned true; this with any number of notify calls in progress.
C2_ReadyAfterNotifyReturns ==
  [][\A r \in Reqs :
       rAfterNotify[r] =>
         /\ (rPc[r] \in {"sRead", "hRead"} /\ rPc'[r] # rPc[r]) => rStarted'[r]
         /\ (rPc[r] \in {"sTest", "hTest"} /\ rPc'[r] # rPc[r] /\ (max = 0 \/ cur < max)) => rTest'[r]
         /\ (rPc'[r] = "done" /\ rPath[r] = readinessPath) => (rStatus'[r] = 200 <=> rTest'[r])]_vars

\* C2 witness: a handler that began after one notify call returned answered
\* 200 while another notify call was still in progress.
C2_Witness ==
  \E r \in Reqs, n \in Notifs :
    /\ Answered(r, readinessPath) /\ rAfterNotify[r] /\ rStatus[r] = 200
    /\ nPc[n] \in {"lock", "write", "unlock"} /\ nTgt[n] = HInst(r)

\* C3: the readiness predicate returns true exactly when started is true and
\* the limit is 0 or the count is below the limit, and /readiness answers 200
\* exactly then.
C3_ReadinessPredicate ==
  \A r \in Reqs :
    Answered(r, readinessPath) =>
      /\ rTest[r] <=> (started[HInst(r)] /\ (max = 0 \/ cur < max))
      /\ rStatus[r] = 200 <=> rTest[r]

\* C3 witness: started, limit 10 and count 10: not ready.
C3_Witness ==
  \E r \in Reqs :
    /\ Answered(r, readinessPath) /\ started[HInst(r)]
    /\ max = 10 /\ cur = 10 /\ ~rTest[r] /\ rStatus[r] = 500

\* C4: every /liveness request that was handled was answered 200.
C4_LivenessAlways200 ==
  \A r \in Reqs : Answered(r, livenessPath) => rStatus[r] = 200

\* C4 witness: a server answered /liveness 200 and /readiness 500.
C4_Witness ==
  \E r, q \in Reqs :
    /\ Answered(r, livenessPath) /\ rStatus[r] = 200
    /\ Answered(q, readinessPath) /\ rStatus[q] = 500
    /\ rTgt[r] = rTgt[q] /\ Life(rTgt[r]) = "serving"

\* C5: a request sent to a server after a close call on it returned nil is
\* never handed to a handler and never answered: it is refused, or waits in
\* the backlog of a listener that will be closed unserved.
C5_NoAnswerAfterClose ==
  \A r \in Reqs : rAfterClose[r] => (rPc[r] \in {"queued", "refused"} /\ rStatus[r] = 0)

\* C5 witness: after a successful close, a request to each path was refused.
C5_Witness ==
  \E r, q \in Reqs :
    /\ rAfterClose[r] /\ rPc[r] = "refused" /\ rPath[r] = livenessPath
    /\ rAfterClose[q] /\ rPc[q] = "refused" /\ rPath[q] = readinessPath

\* C6: a close call made on a server that is already closed never panics,
\* never has to wait (its first poll finds no active connection), returns nil,
\* and leaves the server closed.
C6_SecondCloseSafe ==
  /\ crashed \in {"none", "multiple registrations"}
  /\ \A c \in Closes :
       cRepeat[c] =>
         /\ cPc[c] \in {"poll", "returned"}
         /\ cPc[c] = "poll" => InFlight(cTgt[c]) = {}
         /\ cPc[c] = "returned" => cErr[c] = "nil"
         /\ Life(cTgt[c]) = "closed"

\* C6 witness: a second close call on a closed server has returned.
C6_Witness ==
  \E c \in Closes : cRepeat[c] /\ cPc[c] = "returned" /\ crashed = "none"

\* C7: a listener that could not be bound means the constructor returned an
\* error and no handle, and no serve goroutine was started.
C7_BindFailureIsConstructionError ==
  \A i \in Insts : ln[i] = "failed" => (handle[i] = "err" /\ servePc[i] = "none")

\* C8: a close call that is waiting for handlers when its caller's deadline
\* has passed can return the deadline error to its caller.
C8_CloseBoundedByDeadline ==
  \A c \in Closes : (cPc[c] = "select" /\ cDeadline[c]) => ENABLED ShutdownTimeout(c)

\* C9: started is false when the constructor returns, and no step of any
\* operation changes it from true to false.
C9_StartedMonotonic ==
  [][\A i \in Insts :
       /\ started[i] => started'[i]
       /\ (handle[i] = "none" /\ handle'[i] # "none") => ~started'[i]]_vars

\* C9 witness: started stayed true through a readiness request, a liveness
\* request or a close call that came after it was set.
C9_Witness ==
  \E i \in Insts :
    /\ started[i]
    /\ \E c \in Closes : cTgt[c] = i /\ cPc[c] = "returned"
    /\ \E r \in Reqs : rTgt[r] = i /\ rPc[r] = "done" /\ rStarted[r]

\* C10: the lifecycle of a server only moves unstarted -> serving -> closed,
\* and a closed server never accepts again: its listener is never accepting
\* and no further handler starts on it.
C10_LifecycleOneWay ==
  [][\A i \in Insts :
       /\ <<Life(i), Life(i)'>> \in {<<"unstarted", "unstarted">>, <<"unstarted", "serving">>,
                                     <<"serving", "serving">>, <<"serving", "closed">>,
                                     <<"closed", "closed">>}
       /\ Life(i) = "closed" => (ln'[i] # "accepting" /\ InFlight(i)' \subseteq InFlight(i))]_vars

\* C10 witness: on a closed server the serve goroutine has returned, a further
\* close call and a notify call have returned, and a request was refused.
C10_Witness ==
  \E i \in Insts :
    /\ Life(i) = "closed" /\ servePc[i] = "returned"
    /\ \E n \in Notifs : nTgt[n] = i /\ nPc[n] = "returned"
    /\ \E r \in Reqs : rTgt[r] = i /\ rPc[r] = "refused" /\ rAfterClose[r]

\* C11: a thread that is at its read or its write of started holds the lock
\* that protects it, and no two threads are at an access of the same started
\* at once.
C11_StartedUnderLock ==
  \A i \in Insts :
    /\ Cardinality(Accessing(i)) <= 1
    /\ \A t \in Accessing(i) : StartedLock(i) = t

\* C11 witness: a readiness handler is at its read of started, holding the
\* lock, while a notify call on the same server waits for the lock.
C11_Witness ==
  \E r \in Reqs, n \in Notifs :
    /\ rPc[r] \in {"sRead", "hRead"} /\ StartedLock(HInst(r)) = <<"request", r>>
    /\ nPc[n] = "lock" /\ nTgt[n] = HInst(r)

\* C12: a readiness query whose handler begins after some query of the same
\* server completed with started read true reads started = true itself,
\* whatever notify calls and other queries run beside it.
C12_NoReadinessRegression ==
  [][\A r \in Reqs :
       (rAfterTrue[r] /\ rPc[r] \in {"sRead", "hRead"} /\ rPc'[r] # rPc[r]) => rStarted'[r]]_vars

\* C12 witness: a query completed with started read true, and a query that
\* began after it has made its own read, of true.
C12_Witness ==
  \E r, q \in Reqs :
    /\ r # q /\ Answered(q, readinessPath) /\ rStarted[q] /\ HInst(q) = HInst(r)
    /\ rAfterTrue[r] /\ rPc[r] \in {"sUnlock", "hUnlockS"} /\ rStarted[r]

\* C13: once the constructor has returned a handle the listener is bound, so
\* that a probe is refused only by a server that was closed or whose serve
\* loop failed.
C13_BoundWhenConstructed ==
  /\ \A i \in Insts : handle[i] = "ok" => ln[i] # "none"
  /\ \A r \in Reqs :
       rPc[r] = "refused" => (inShutdown[rTgt[r]] \/ serveErr[rTgt[r]] = "other")

\* C14: when the serve goroutine ends, what Serve returned is logged exactly
\* when it is not http.ErrServerClosed; a loop ended by the shutdown of its
\* listener returns http.ErrServerClosed and logs nothing; and the end of the
\* goroutine neither crashes the process nor changes what a constructor or a
\* close call returned.
C14_ServeErrorLogged ==
  [][\A i \in Insts :
       (servePc[i] # "returned" /\ servePc'[i] = "returned") =>
         /\ serveErr'[i] \in {"ErrServerClosed", "other"}
         /\ serveLog'[i] <=> serveErr'[i] # "ErrServerClosed"
         /\ (inShutdown[i] /\ ln'[i] = "closed") => ~serveLog'[i]
         /\ crashed' = crashed /\ handle' = handle /\ cErr' = cErr]_vars

\* C14 witness: one serve loop ended by a close call that returned nil, with
\* nothing logged, and another ended by an error of its own, which was logged,
\* in a process that is still running.
C14_Witness ==
  \E i, j \in Insts :
    /\ servePc[i] = "returned" /\ serveErr[i] = "ErrServerClosed" /\ ~serveLog[i] /\ closedOk[i]
    /\ servePc[j] = "returned" /\ serveErr[j] = "other" /\ serveLog[j]
    /\ Running

\* C15: a handler writes one status, 200 or 500, when it returns and none
\* before, and holds no lock once it has returned; and under fair scheduling
\* every request handed to a handler is answered, unless the process has
\* panicked meanwhile.
C15_HandlersTerminate ==
  /\ [](\A r \in Reqs :
         /\ rPc[r] = "done" => (rStatus[r] \in {200, 500} /\ LocksHeld(<<"request", r>>) = {})
         /\ rPc[r] # "done" => rStatus[r] = 0)
  /\ [][\A r \in Reqs : rStatus[r] # 0 => rStatus'[r] = rStatus[r]]_vars
  /\ \A r \in Reqs : InHandler(r) ~> (rPc[r] = "done" \/ ~Running)

\* C15 witness: a /readiness and a /liveness request have both been answered
\* after a notify call, and every lock is free.
C15_Witness ==
  \E r, q \in Reqs, n \in Notifs :
    /\ Answered(r, readinessPath) /\ Answered(q, livenessPath)
    /\ nPc[n] = "returned" /\ nTgt[n] = HInst(r)
    /\ \A i \in Insts : startedL[i] = Free
    /\ startupL = Free /\ readinessL = Free /\ livenessL = Free

\* C16: no step of a constructor, of the serve goroutine, of a request or its
\* handler, of a notify call or of a close call changes the connection count
\* or the limit of the collaborator.
C16_ConnectionDataUntouched ==
  [][(Construct \/ ServeTask \/ Request \/ Notify \/ CloseStep) => UNCHANGED connVars]_vars

\* C16 witness: with a count and a limit that are not zero, a /readiness
\* request was answered, a notify call returned and a close call returned.
C16_Witness ==
  \E r \in Reqs, n \in Notifs, c \in Closes :
    /\ cur > 0 /\ max > 0
    /\ Answered(r, readinessPath) /\ rStatus[r] = 500
    /\ nPc[n] = "returned" /\ nTgt[n] = HInst(r)
    /\ cPc[c] = "returned" /\ cTgt[c] = rTgt[r]

\* C17: a notify call that has returned leaves started true and holds no
\* lock; its steps change nothing but started (from false to true, or not at
\* all when it is true already), its lock and its own progress, and never
\* crash the process; and under fair scheduling every notify call returns,
\* unless the process has panicked meanwhile.
C17_NotifyIdempotent ==
  /\ [](\A n \in Notifs :
         (nPc[n] = "returned" /\ nTgt[n] # Nil) =>
           (started[nTgt[n]] /\ LocksHeld(<<"notify", n>>) = {}))
  /\ [][\A n \in Notifs :
         NotifyStep(n) =>
           /\ UNCHANGED <<procVars, connVars, srvVars, hcReady, hcLive, reqVars, closeVars>>
           /\ started' = [started EXCEPT ![nTgt[n]] = started[nTgt[n]] \/ nPc[n] = "write"]]_vars
  /\ \A n \in Notifs : (nPc[n] \in {"lock", "write", "unlock"}) ~> (nPc[n] = "returned" \/ ~Running)

\* C17 witness: two notify calls on one server have returned, the second
\* having found started already true; started is true and its lock is free.
C17_Witness ==
  \E n, k \in Notifs :
    /\ n # k /\ nTgt[n] # Nil /\ nTgt[n] = nTgt[k]
    /\ nPc[n] = "returned" /\ nPc[k] = "returned"
    /\ started[nTgt[n]] /\ StartedLock(nTgt[n]) = Free /\ Running

\* C18: in the HC variant, a handler that has stored its result and not yet
\* answered still finds its own result in the shared field, and a request
\* that was answered was answered 500 exactly when its own test returned
\* false.
C18_OwnResultAnswered ==
  variant = "HC" =>
    \A r \in Reqs :
      /\ rPc[r] = "hResp" => hcReady[HInst(r)] = rTest[r]
      /\ rPc[r] = "hRespL" => hcLive[HInst(r)] = rTest[r]
      /\ rPc[r] = "done" => (rStatus[r] = 500 <=> ~rTest[r])

\* C18 witness: two /readiness requests of one HC were answered, one 500 on
\* its own false and one 200 on its own true.
C18_Witness ==
  \E r, q \in Reqs :
    /\ variant = "HC" /\ HInst(r) = HInst(q)
    /\ Answered(r, readinessPath) /\ ~rTest[r] /\ rStatus[r] = 500
    /\ Answered(q, readinessPath) /\ rTest[q] /\ rStatus[q] = 200

\* C19: constructing a new server after one was closed leaves the process
\* running, and a server answers /readiness 200 only after a notify call on
\* that very server.
C19_StartupPerInstance ==
  /\ (\E i \in Insts : closedOk[i]) => Running
  /\ \A r \in Reqs :
       (Answered(r, readinessPath) /\ rStatus[r] = 200) => notifyCalled[rTgt[r]]

\* C20: no step of a close call changes started, and no step of a notify
\* call changes the lifecycle of a server, its listener or its serve
\* goroutine, or crashes the process.
C20_CloseNotifyDisjoint ==
  [][/\ CloseStep => started' = started
     /\ Notify => /\ \A i \in Insts : Life(i)' = Life(i)
                  /\ UNCHANGED <<ln, inShutdown, servePc, crashed>>]_vars

\* C20 witness: a notify call has just written started on a server that a
\* close call, still waiting, has already shut down.
C20_Witness ==
  \E n \in Notifs, c \in Closes :
    /\ nPc[n] = "unlock" /\ cPc[c] \in {"poll", "select"} /\ cTgt[c] = nTgt[n]
    /\ started[nTgt[n]] /\ Life(nTgt[n]) = "closed" /\ ln[nTgt[n]] # "accepting" /\ Running
====
